---- MODULE Spec2Model ----
(***************************************************************************)
(* Model of internal/alloydbutil/engine.go: identity resolution (getUser), *)
(* engine creation and Close, table-option defaulting and the DDL issued   *)
(* by InitVectorstoreTable / InitChatHistoryTable against the pool.        *)
(*                                                                         *)
(* Go values are modelled as follows.  A string is a TLA+ string; an error *)
(* is the string of its text, with Nil standing for the nil error;         *)
(* fmt.Errorf("prefix: %w", err) is the concatenation of prefix and text.  *)
(***************************************************************************)
EXTENDS Integers, Sequences, FiniteSets, TLC

VARIABLES
    \* --- getUser call (as TestGetUser drives it) ---
    config,      \* the engineConfig handed to getUser
    guPc,        \* "ready" before the call, "done" after it
    guOut,       \* what getUser returned, and how often it called the retriever
    \* --- NewVectorstoreTableOptions followed by InitVectorstoreTable ---
    optsIn,      \* the *VectorstoreTableOptions the caller fills in
    argsIn,      \* the other arguments of InitVectorstoreTable
    optsPc,      \* "start", "made" (constructor called), "built", "builtLiteral"
    optsOut,     \* what NewVectorstoreTableOptions returned
    runOut,      \* the statements InitVectorstoreTable issued, and its error
    \* --- the engine and the database behind its pool ---
    engine,      \* the *PostgresEngine the caller holds: "none", "nil", "ptr"
    Pool,        \* PostgresEngine.Pool: "nil" or "pool"
    newErr,      \* the error NewPostgresEngine returned
    poolClosed,  \* the pgxpool.Pool has been closed
    releases,    \* how often the pool's connections were released
    closeCalls,  \* how often PostgresEngine.Close was called
    panicked,    \* "" or the method that hit a nil dereference
    extension,   \* the vector extension is enabled in the database
    tables,      \* the database's tables: existence and number of rows
    last         \* the last Init*Table call: arguments, statements, error

userVars == <<config, guPc, guOut>>
optVars == <<optsIn, argsIn, optsPc, optsOut, runOut>>
engVars == <<engine, Pool, newErr, poolClosed, releases, closeCalls, panicked,
             extension, tables, last>>
vars == <<config, guPc, guOut, optsIn, argsIn, optsPc, optsOut, runOut,
          engine, Pool, newErr, poolClosed, releases, closeCalls, panicked,
          extension, tables, last>>

\* The nil error.
Nil == "<nil>"

-----------------------------------------------------------------------------
\* Inputs of getUser.

UserNames   == {"", "testUser", "admin"}
Passwords   == {"", "testPass"}
IAMEmails   == {"", "iam@test.com", "other@test.com"}

\* An EmailRetriever is a function of the context alone: it is modelled by
\* the pair it returns when called.
Retrievers ==
    { [email |-> "test-service-account-email@test.com", err |-> Nil],
      [email |-> "",                                    err |-> Nil],
      [email |-> "", err |-> "missing or invalid credentials"],
      [email |-> "", err |-> "unable to get default credentials"] }

Configs ==
    [user : UserNames, password : Passwords, iamAccountEmail : IAMEmails,
     emailRetreiver : Retrievers]

\* getUser with the first two branches swapped (identity-email tested first).
GetUserEmailFirst(cfg) ==
    IF cfg.iamAccountEmail # ""
    THEN [user |-> cfg.iamAccountEmail, usingIAMAuth |-> TRUE, err |-> Nil,
          retrieverCalls |-> 0]
    ELSE IF cfg.user # "" /\ cfg.password # ""
    THEN [user |-> cfg.user, usingIAMAuth |-> FALSE, err |-> Nil,
          retrieverCalls |-> 0]
    ELSE IF cfg.user = "" /\ cfg.password = ""
    THEN LET r == cfg.emailRetreiver IN
         IF r.err # Nil
         THEN [user |-> "", usingIAMAuth |-> FALSE,
               err |-> "unable to retrieve service account email: " \o r.err,
               retrieverCalls |-> 1]
         ELSE [user |-> r.email, usingIAMAuth |-> TRUE, err |-> Nil,
               retrieverCalls |-> 1]
    ELSE [user |-> "", usingIAMAuth |-> FALSE,
          err |-> "unable to retrieve a valid username", retrieverCalls |-> 0]

\* getUser whose first branch accepts a username without a password.
GetUserUserOnly(cfg) ==
    IF cfg.user # ""
    THEN [user |-> cfg.user, usingIAMAuth |-> FALSE, err |-> Nil,
          retrieverCalls |-> 0]
    ELSE IF cfg.iamAccountEmail # ""
    THEN [user |-> cfg.iamAccountEmail, usingIAMAuth |-> TRUE, err |-> Nil,
          retrieverCalls |-> 0]
    ELSE IF cfg.user = "" /\ cfg.password = "" /\ cfg.iamAccountEmail = ""
    THEN LET r == cfg.emailRetreiver IN
         IF r.err # Nil
         THEN [user |-> "", usingIAMAuth |-> FALSE,
               err |-> "unable to retrieve service account email: " \o r.err,
               retrieverCalls |-> 1]
         ELSE [user |-> r.email, usingIAMAuth |-> TRUE, err |-> Nil,
               retrieverCalls |-> 1]
    ELSE [user |-> "", usingIAMAuth |-> FALSE,
          err |-> "unable to retrieve a valid username", retrieverCalls |-> 0]

\* getUser that drops the retriever's error instead of wrapping it.
GetUserSwallowErr(cfg) ==
    IF cfg.user # "" /\ cfg.password # ""
    THEN [user |-> cfg.user, usingIAMAuth |-> FALSE, err |-> Nil,
          retrieverCalls |-> 0]
    ELSE IF cfg.iamAccountEmail # ""
    THEN [user |-> cfg.iamAccountEmail, usingIAMAuth |-> TRUE, err |-> Nil,
          retrieverCalls |-> 0]
    ELSE IF cfg.user = "" /\ cfg.password = "" /\ cfg.iamAccountEmail = ""
    THEN LET r == cfg.emailRetreiver IN
         [user |-> r.email, usingIAMAuth |-> TRUE, err |-> Nil,
          retrieverCalls |-> 1]
    ELSE [user |-> "", usingIAMAuth |-> FALSE,
          err |-> "unable to retrieve a valid username", retrieverCalls |-> 0]

\* getUser whose retrieval branch only tests the identity-email, so that a
\* lone username or password falls into it.
GetUserRetrieveOnPartial(cfg) ==
    IF cfg.user # "" /\ cfg.password # ""
    THEN [user |-> cfg.user, usingIAMAuth |-> FALSE, err |-> Nil,
          retrieverCalls |-> 0]
    ELSE IF cfg.iamAccountEmail # ""
    THEN [user |-> cfg.iamAccountEmail, usingIAMAuth |-> TRUE, err |-> Nil,
          retrieverCalls |-> 0]
    ELSE IF cfg.iamAccountEmail = ""
    THEN LET r == cfg.emailRetreiver IN
         IF r.err # Nil
         THEN [user |-> "", usingIAMAuth |-> FALSE,
               err |-> "unable to retrieve service account email: " \o r.err,
               retrieverCalls |-> 1]
         ELSE [user |-> r.email, usingIAMAuth |-> TRUE, err |-> Nil,
               retrieverCalls |-> 1]
    ELSE [user |-> "", usingIAMAuth |-> FALSE,
          err |-> "unable to retrieve a valid username", retrieverCalls |-> 0]

\* getUser: (username, usingIAMAuth, error), plus the number of calls it made
\* to config.emailRetreiver.
GetUser(cfg) ==
    IF cfg.user # "" /\ cfg.password # ""
    THEN [user |-> cfg.user, usingIAMAuth |-> FALSE, err |-> Nil,
          retrieverCalls |-> 0]
    ELSE IF cfg.iamAccountEmail # ""
    THEN [user |-> cfg.iamAccountEmail, usingIAMAuth |-> TRUE, err |-> Nil,
          retrieverCalls |-> 0]
    ELSE IF cfg.user = "" /\ cfg.password = "" /\ cfg.iamAccountEmail = ""
    THEN LET r == cfg.emailRetreiver IN
         IF r.err # Nil
         THEN [user |-> "", usingIAMAuth |-> FALSE,
               err |-> "unable to retrieve service account email: " \o r.err,
               retrieverCalls |-> 1]
         ELSE [user |-> r.email, usingIAMAuth |-> TRUE, err |-> Nil,
               retrieverCalls |-> 1]
    ELSE [user |-> "", usingIAMAuth |-> FALSE,
          err |-> "unable to retrieve a valid username", retrieverCalls |-> 0]

-----------------------------------------------------------------------------
\* Table options and the statements built from them.

\* The zero value of VectorstoreTableOptions (new(VectorstoreTableOptions)).
ZeroOptions ==
    [TableName |-> "", VectorSize |-> 0, SchemaName |-> "",
     ContentColumnName |-> "", EmbeddingColumn |-> "",
     MetadataJsonColumn |-> ""]

\* NewVectorstoreTableOptions that forgets the schema default.
NewVectorstoreTableOptionsNoSchemaDefault(opts) ==
    IF opts.TableName = ""
    THEN [opts |-> ZeroOptions, err |-> "missing table name in options"]
    ELSE IF opts.VectorSize = 0
    THEN [opts |-> ZeroOptions, err |-> "missing vector size in options"]
    ELSE [opts |->
            [TableName |-> opts.TableName,
             VectorSize |-> opts.VectorSize,
             SchemaName |-> opts.SchemaName,
             ContentColumnName |->
                 IF opts.ContentColumnName # "" THEN opts.ContentColumnName
                 ELSE "content",
             EmbeddingColumn |->
                 IF opts.EmbeddingColumn # "" THEN opts.EmbeddingColumn
                 ELSE "embedding",
             MetadataJsonColumn |->
                 IF opts.MetadataJsonColumn # "" THEN opts.MetadataJsonColumn
                 ELSE "langchain_metadata"],
          err |-> Nil]

\* NewVectorstoreTableOptions: (options with defaults filled in, error).
NewVectorstoreTableOptions(opts) ==
    IF opts.TableName = ""
    THEN [opts |-> ZeroOptions, err |-> "missing table name in options"]
    ELSE IF opts.VectorSize = 0
    THEN [opts |-> ZeroOptions, err |-> "missing vector size in options"]
    ELSE [opts |->
            [TableName |-> opts.TableName,
             VectorSize |-> opts.VectorSize,
             SchemaName |->
                 IF opts.SchemaName # "" THEN opts.SchemaName ELSE "public",
             ContentColumnName |->
                 IF opts.ContentColumnName # "" THEN opts.ContentColumnName
                 ELSE "content",
             EmbeddingColumn |->
                 IF opts.EmbeddingColumn # "" THEN opts.EmbeddingColumn
                 ELSE "embedding",
             MetadataJsonColumn |->
                 IF opts.MetadataJsonColumn # "" THEN opts.MetadataJsonColumn
                 ELSE "langchain_metadata"],
          err |-> Nil]

\* The id-column defaults applied inside InitVectorstoreTable.
DefaultIDColumn(idColumn) ==
    [Name     |-> IF idColumn.Name = "" THEN "langchain_id" ELSE idColumn.Name,
     DataType |-> IF idColumn.DataType = "" THEN "UUID" ELSE idColumn.DataType,
     Nullable |-> idColumn.Nullable]

\* A statement is the record of what fmt.Sprintf writes into the SQL text:
\* its verb, the quoted schema and table, and the column definitions in the
\* order they are written.  A column definition is the quoted name, the
\* type, the dimension written into vector(%d) (0 elsewhere) and the
\* constraint text that follows.
ExtensionStmt ==
    [verb |-> "CREATE EXTENSION IF NOT EXISTS vector",
     schema |-> "", table |-> "", columns |-> <<>>]

DropTableStmt(vsTableOpts) ==
    [verb |-> "DROP TABLE IF EXISTS",
     schema |-> vsTableOpts.SchemaName, table |-> vsTableOpts.TableName,
     columns |-> <<>>]

RECURSIVE MetadataColumnDefs(_)
MetadataColumnDefs(metadataColumns) ==
    IF metadataColumns = <<>> THEN <<>>
    ELSE LET column == Head(metadataColumns) IN
         <<[name |-> column.Name, type |-> column.DataType, dim |-> 0,
            constraint |-> IF ~column.Nullable THEN "NOT NULL" ELSE ""]>>
         \o MetadataColumnDefs(Tail(metadataColumns))

CreateTableStmt(vsTableOpts, metadataColumns, idColumn, storeMetadata) ==
    [verb |-> "CREATE TABLE",
     schema |-> vsTableOpts.SchemaName, table |-> vsTableOpts.TableName,
     columns |->
        <<[name |-> idColumn.Name, type |-> idColumn.DataType, dim |-> 0,
           constraint |-> "PRIMARY KEY"],
          [name |-> vsTableOpts.ContentColumnName, type |-> "TEXT", dim |-> 0,
           constraint |-> "NOT NULL"],
          [name |-> vsTableOpts.EmbeddingColumn, type |-> "vector",
           dim |-> vsTableOpts.VectorSize, constraint |-> "NOT NULL"]>>
        \o MetadataColumnDefs(metadataColumns)
        \o (IF storeMetadata
            THEN <<[name |-> vsTableOpts.MetadataJsonColumn, type |-> "JSON",
                    dim |-> 0, constraint |-> ""]>>
            ELSE <<>>)]

ChatHistoryStmt(tableName, schemaName) ==
    [verb |-> "CREATE TABLE IF NOT EXISTS",
     schema |-> schemaName, table |-> tableName,
     columns |->
        <<[name |-> "id", type |-> "SERIAL", dim |-> 0,
           constraint |-> "PRIMARY KEY"],
          [name |-> "session_id", type |-> "TEXT", dim |-> 0,
           constraint |-> "NOT NULL"],
          [name |-> "data", type |-> "JSONB", dim |-> 0,
           constraint |-> "NOT NULL"],
          [name |-> "type", type |-> "TEXT", dim |-> 0,
           constraint |-> "NOT NULL"]>>]

-----------------------------------------------------------------------------
\* The database behind the pool, and pgxpool.Pool.Exec / Close as the engine
\* calls them.

DbSchemas == {"public", "app"}
DbTables  == {"items"}
TableKeys == DbSchemas \X DbTables

AbsentTable == [exists |-> FALSE, rows |-> 0]
EmptyTable  == [exists |-> TRUE, rows |-> 0]

FreshDb == [extension |-> FALSE, tables |-> [k \in TableKeys |-> AbsentTable]]

\* Upper bound on the rows the model lets a table hold.
MaxRows == 2

\* Upper bound on the number of Close calls the model follows.
MaxCloses == 2

HasEmptyColumn(stmt) ==
    \E i \in 1..Len(stmt.columns) :
        stmt.columns[i].name = "" \/ stmt.columns[i].type = ""

HasBadVector(stmt) ==
    \E i \in 1..Len(stmt.columns) :
        stmt.columns[i].type = "vector" /\ stmt.columns[i].dim < 1

\* What PostgreSQL does with one statement: the new database and the error.
DbExec(db, stmt) ==
    LET key == <<stmt.schema, stmt.table>> IN
    IF stmt.verb = "CREATE EXTENSION IF NOT EXISTS vector"
    THEN [db |-> [db EXCEPT !.extension = TRUE], err |-> Nil]
    ELSE IF stmt.schema = "" \/ stmt.table = ""
    THEN [db |-> db, err |-> "zero-length delimited identifier"]
    ELSE IF stmt.verb = "DROP TABLE IF EXISTS"
    THEN [db |-> [db EXCEPT !.tables[key] = AbsentTable], err |-> Nil]
    ELSE IF HasEmptyColumn(stmt)
    THEN [db |-> db, err |-> "syntax error in column definition"]
    ELSE IF db.tables[key].exists
    THEN IF stmt.verb = "CREATE TABLE IF NOT EXISTS"
         THEN [db |-> db, err |-> Nil]
         ELSE [db |-> db, err |-> "relation already exists"]
    ELSE IF HasBadVector(stmt)
    THEN [db |-> db, err |-> "dimensions for type vector must be at least 1"]
    ELSE [db |-> [db EXCEPT !.tables[key] = EmptyTable], err |-> Nil]

\* p.Pool.Exec(ctx, stmt): a closed pool rejects the call, the context or
\* the connection may fail it (fault), otherwise the database runs it.
PoolExec(db, closed, stmt, fault) ==
    IF closed THEN [db |-> db, err |-> "closed pool", ran |-> FALSE]
    ELSE IF fault THEN [db |-> db, err |-> "context canceled", ran |-> FALSE]
    ELSE LET r == DbExec(db, stmt) IN
         [db |-> r.db, err |-> r.err, ran |-> TRUE]

LogEntry(stmt, r) == [stmt |-> stmt, err |-> r.err, ran |-> r.ran]

\* InitVectorstoreTable that drops the table whether or not overwrite is asked.
RunVectorstoreTableAlwaysDrop(db, closed, vsTableOpts, metadataColumns, idColumn, overwriteExisting, storeMetadata, faults) ==
    LET r1 == PoolExec(db, closed, ExtensionStmt, faults.ext)
        e1 == LogEntry(ExtensionStmt, r1)
    IN
    IF r1.err # Nil
    THEN [db |-> r1.db, err |-> "failed to create extension: " \o r1.err,
          log |-> <<e1>>]
    ELSE
    LET drop == DropTableStmt(vsTableOpts)
        r2 == PoolExec(r1.db, closed, drop, faults.drop)
        log2 == <<e1, LogEntry(drop, r2)>>
    IN
    IF r2.err # Nil
    THEN [db |-> r2.db, err |-> "failed to drop table: " \o r2.err,
          log |-> log2]
    ELSE
    LET query == CreateTableStmt(vsTableOpts, metadataColumns,
                                 DefaultIDColumn(idColumn), storeMetadata)
        r3 == PoolExec(r2.db, closed, query, faults.create)
        log3 == log2 \o <<LogEntry(query, r3)>>
    IN
    IF r3.err # Nil
    THEN [db |-> r3.db, err |-> "failed to create table: " \o r3.err,
          log |-> log3]
    ELSE [db |-> r3.db, err |-> Nil, log |-> log3]

\* InitVectorstoreTable that does not return when the drop fails.
RunVectorstoreTableIgnoreDropErr(db, closed, vsTableOpts, metadataColumns, idColumn, overwriteExisting, storeMetadata, faults) ==
    LET r1 == PoolExec(db, closed, ExtensionStmt, faults.ext)
        e1 == LogEntry(ExtensionStmt, r1)
    IN
    IF r1.err # Nil
    THEN [db |-> r1.db, err |-> "failed to create extension: " \o r1.err,
          log |-> <<e1>>]
    ELSE
    LET drop == DropTableStmt(vsTableOpts)
        r2 == IF overwriteExisting
              THEN PoolExec(r1.db, closed, drop, faults.drop)
              ELSE [db |-> r1.db, err |-> Nil, ran |-> FALSE]
        log2 == IF overwriteExisting THEN <<e1, LogEntry(drop, r2)>>
                ELSE <<e1>>
        query == CreateTableStmt(vsTableOpts, metadataColumns,
                                 DefaultIDColumn(idColumn), storeMetadata)
        r3 == PoolExec(r2.db, closed, query, faults.create)
        log3 == log2 \o <<LogEntry(query, r3)>>
    IN
    IF r3.err # Nil
    THEN [db |-> r3.db, err |-> "failed to create table: " \o r3.err,
          log |-> log3]
    ELSE [db |-> r3.db, err |-> Nil, log |-> log3]

\* The body of InitVectorstoreTable on a non-nil pool: the statements it
\* issues in order, each one's outcome, the database afterwards and the
\* error it returns.  faults says which statements the connection fails.
RunVectorstoreTable(db, closed, vsTableOpts, metadataColumns, idColumn, overwriteExisting, storeMetadata, faults) ==
    LET r1 == PoolExec(db, closed, ExtensionStmt, faults.ext)
        e1 == LogEntry(ExtensionStmt, r1)
    IN
    IF r1.err # Nil
    THEN [db |-> r1.db, err |-> "failed to create extension: " \o r1.err,
          log |-> <<e1>>]
    ELSE
    LET drop == DropTableStmt(vsTableOpts)
        r2 == IF overwriteExisting
              THEN PoolExec(r1.db, closed, drop, faults.drop)
              ELSE [db |-> r1.db, err |-> Nil, ran |-> FALSE]
        log2 == IF overwriteExisting THEN <<e1, LogEntry(drop, r2)>>
                ELSE <<e1>>
    IN
    IF r2.err # Nil
    THEN [db |-> r2.db, err |-> "failed to drop table: " \o r2.err,
          log |-> log2]
    ELSE
    LET query == CreateTableStmt(vsTableOpts, metadataColumns,
                                 DefaultIDColumn(idColumn), storeMetadata)
        r3 == PoolExec(r2.db, closed, query, faults.create)
        log3 == log2 \o <<LogEntry(query, r3)>>
    IN
    IF r3.err # Nil
    THEN [db |-> r3.db, err |-> "failed to create table: " \o r3.err,
          log |-> log3]
    ELSE [db |-> r3.db, err |-> Nil, log |-> log3]

\* The body of InitChatHistoryTable on a non-nil pool.
RunChatHistoryTable(db, closed, tableName, schemaName, fault) ==
    LET createTableQuery == ChatHistoryStmt(tableName, schemaName)
        r == PoolExec(db, closed, createTableQuery, fault)
    IN
    IF r.err # Nil
    THEN [db |-> r.db, err |-> "failed to execute query: " \o r.err,
          log |-> <<LogEntry(createTableQuery, r)>>]
    ELSE [db |-> r.db, err |-> Nil, log |-> <<LogEntry(createTableQuery, r)>>]

Faults == [ext : BOOLEAN, drop : BOOLEAN, create : BOOLEAN]
NoFaults == [ext |-> FALSE, drop |-> FALSE, create |-> FALSE]

-----------------------------------------------------------------------------
\* NewVectorstoreTableOptions and InitVectorstoreTable as a caller uses them.

RawOptions ==
    [TableName : {"", "items"}, VectorSize : {-1, 0, 3},
     SchemaName : {"", "app"}, ContentColumnName : {"", "text"},
     EmbeddingColumn : {"", "vec"}, MetadataJsonColumn : {"", "meta"}]

IdColumns == [Name : {"", "id"}, DataType : {"", "TEXT"}, Nullable : {FALSE}]

MetadataColumnLists ==
    { <<>>,
      <<[Name |-> "area", DataType |-> "int", Nullable |-> FALSE],
        [Name |-> "population", DataType |-> "int", Nullable |-> TRUE]>> }

InitArgs ==
    [metadataColumns : MetadataColumnLists, idColumn : IdColumns,
     overwriteExisting : BOOLEAN, storeMetadata : BOOLEAN]

NoRun == [db |-> FreshDb, err |-> Nil, log |-> <<>>]

OptIdle ==
    /\ optsIn = ZeroOptions
    /\ argsIn = [metadataColumns |-> <<>>,
                 idColumn |-> [Name |-> "", DataType |-> "", Nullable |-> FALSE],
                 overwriteExisting |-> FALSE, storeMetadata |-> FALSE]
    /\ optsPc = "start"
    /\ optsOut = [opts |-> ZeroOptions, err |-> Nil]
    /\ runOut = NoRun

\* opts, err := NewVectorstoreTableOptions(&VectorstoreTableOptions{...})
NewVectorstoreTableOptionsCall ==
    /\ optsPc = "start"
    /\ optsOut' = NewVectorstoreTableOptions(optsIn)
    /\ optsPc' = "made"
    /\ UNCHANGED <<optsIn, argsIn, runOut>>

\* The caller passes the options the constructor returned without error to
\* InitVectorstoreTable (on an open pool over a fresh database).
InitWithConstructedOptions ==
    /\ optsPc = "made"
    /\ optsOut.err = Nil
    /\ runOut' = RunVectorstoreTable(FreshDb, FALSE, optsOut.opts,
                     argsIn.metadataColumns, argsIn.idColumn,
                     argsIn.overwriteExisting, argsIn.storeMetadata, NoFaults)
    /\ optsPc' = "built"
    /\ UNCHANGED <<optsIn, argsIn, optsOut>>

\* The caller passes a VectorstoreTableOptions value of its own making:
\* InitVectorstoreTable takes the struct by value and accepts any.
InitWithLiteralOptions ==
    /\ optsPc = "start"
    /\ runOut' = RunVectorstoreTable(FreshDb, FALSE, optsIn,
                     argsIn.metadataColumns, argsIn.idColumn,
                     argsIn.overwriteExisting, argsIn.storeMetadata, NoFaults)
    /\ optsPc' = "builtLiteral"
    /\ UNCHANGED <<optsIn, argsIn, optsOut>>

-----------------------------------------------------------------------------
\* The engine.

\* What alloydbconn.NewDialer, pgxpool.ParseConfig and pgxpool.NewWithConfig
\* can do inside createPool.
PoolOutcomes == {"ok", "dialer", "parse", "pool"}

\* createPool: (pool, error).
CreatePool(cfg, usingIAMAuth, outcome) ==
    IF outcome = "dialer"
    THEN [pool |-> "nil", err |-> "failed to initialize connection: " \o "dialer error"]
    ELSE IF outcome = "parse"
    THEN [pool |-> "nil", err |-> "failed to parse connection config: " \o "parse error"]
    ELSE IF outcome = "pool"
    THEN [pool |-> "nil", err |-> "unable to create connection pool: " \o "pool error"]
    ELSE [pool |-> "pool", err |-> Nil]

NoCall ==
    [op |-> "none", schema |-> "", table |-> "", overwrite |-> FALSE,
     err |-> Nil, log |-> <<>>, afterClose |-> FALSE,
     preTables |-> FreshDb.tables, postTables |-> FreshDb.tables]

EngIdle ==
    /\ engine = "none"
    /\ Pool = "nil"
    /\ newErr = Nil
    /\ poolClosed = FALSE
    /\ releases = 0
    /\ closeCalls = 0
    /\ panicked = ""
    /\ extension = FreshDb.extension
    /\ tables = FreshDb.tables
    /\ last = NoCall

\* NewPostgresEngine.  optsErr is what applyClientOptions returned, cfg the
\* configuration it built, connPool whether WithPool supplied a pool, and
\* outcome what createPool meets.
NewPostgresEngine(optsErr, cfg, connPool, outcome) ==
    /\ engine = "none"
    /\ LET u == GetUser(cfg)
           cfgUser == IF u.usingIAMAuth THEN [cfg EXCEPT !.user = u.user]
                      ELSE cfg
           p == CreatePool(cfgUser, u.usingIAMAuth, outcome)
       IN
       IF optsErr # Nil
       THEN engine' = "nil" /\ Pool' = "nil" /\ newErr' = optsErr
       ELSE IF u.err # Nil
       THEN /\ engine' = "nil" /\ Pool' = "nil"
            /\ newErr' = "error assigning user. Err: " \o u.err
       ELSE IF ~connPool /\ p.err # Nil
       THEN engine' = "ptr" /\ Pool' = "nil" /\ newErr' = p.err
       ELSE engine' = "ptr" /\ Pool' = "pool" /\ newErr' = Nil
    /\ UNCHANGED <<poolClosed, releases, closeCalls, panicked, extension,
                   tables, last>>

\* Close that never reaches p.Pool.Close().
CloseWithoutRelease ==
    /\ engine # "none"
    /\ panicked = ""
    /\ closeCalls < MaxCloses
    /\ closeCalls' = closeCalls + 1
    /\ IF engine = "nil" THEN panicked' = "Close" ELSE UNCHANGED panicked
    /\ UNCHANGED <<engine, Pool, newErr, poolClosed, releases, extension,
                   tables, last>>

\* PostgresEngine.Close.  Reading p.Pool through a nil receiver panics.
\* pgxpool's Pool.Close releases the connections on its first call and
\* returns at once on a later one.
Close ==
    /\ engine # "none"
    /\ panicked = ""
    /\ closeCalls < MaxCloses
    /\ closeCalls' = closeCalls + 1
    /\ IF engine = "nil"
       THEN panicked' = "Close" /\ UNCHANGED <<poolClosed, releases>>
       ELSE IF Pool # "nil"
       THEN /\ poolClosed' = TRUE
            /\ releases' = IF poolClosed THEN releases ELSE releases + 1
            /\ UNCHANGED panicked
       ELSE UNCHANGED <<panicked, poolClosed, releases>>
    /\ UNCHANGED <<engine, Pool, newErr, extension, tables, last>>

\* InitVectorstoreTable.  p.Pool.Exec through a nil engine or a nil pool
\* panics.
InitVectorstoreTable(vsTableOpts, metadataColumns, idColumn, overwriteExisting, storeMetadata, faults) ==
    /\ engine # "none"
    /\ panicked = ""
    /\ IF engine = "nil" \/ Pool = "nil"
       THEN /\ panicked' = "InitVectorstoreTable"
            /\ UNCHANGED <<extension, tables, last>>
       ELSE LET r == RunVectorstoreTable(
                        [extension |-> extension, tables |-> tables],
                        poolClosed, vsTableOpts, metadataColumns, idColumn,
                        overwriteExisting, storeMetadata, faults)
            IN /\ extension' = r.db.extension
               /\ tables' = r.db.tables
               /\ last' = [op |-> "InitVectorstoreTable",
                           schema |-> vsTableOpts.SchemaName,
                           table |-> vsTableOpts.TableName,
                           overwrite |-> overwriteExisting,
                           err |-> r.err, log |-> r.log,
                           afterClose |-> closeCalls > 0,
                           preTables |-> tables,
                           postTables |-> r.db.tables]
               /\ UNCHANGED panicked
    /\ UNCHANGED <<engine, Pool, newErr, poolClosed, releases, closeCalls>>

\* InitChatHistoryTable.
InitChatHistoryTable(tableName, schemaName, fault) ==
    /\ engine # "none"
    /\ panicked = ""
    /\ IF engine = "nil" \/ Pool = "nil"
       THEN /\ panicked' = "InitChatHistoryTable"
            /\ UNCHANGED <<extension, tables, last>>
       ELSE LET r == RunChatHistoryTable(
                        [extension |-> extension, tables |-> tables],
                        poolClosed, tableName, schemaName, fault)
            IN /\ extension' = r.db.extension
               /\ tables' = r.db.tables
               /\ last' = [op |-> "InitChatHistoryTable",
                           schema |-> schemaName, table |-> tableName,
                           overwrite |-> FALSE,
                           err |-> r.err, log |-> r.log,
                           afterClose |-> closeCalls > 0,
                           preTables |-> tables,
                           postTables |-> r.db.tables]
               /\ UNCHANGED panicked
    /\ UNCHANGED <<engine, Pool, newErr, poolClosed, releases, closeCalls>>

\* A consumer of the engine's pool (vs.AddDocuments, chatMsgHistory.AddMessage)
\* inserts a row into an existing table.
InsertRow(key) ==
    /\ engine = "ptr" /\ Pool = "pool"
    /\ panicked = ""
    /\ ~poolClosed
    /\ tables[key].exists
    /\ tables[key].rows < MaxRows
    /\ tables' = [tables EXCEPT ![key].rows = @ + 1]
    /\ UNCHANGED <<engine, Pool, newErr, poolClosed, releases, closeCalls,
                   panicked, extension, last>>

\* The arguments the engine's callers pass in this model.
ApplyErrors == {Nil, "missing connection: provide a connection pool or db instance fields"}

EngineOptions ==
    { NewVectorstoreTableOptions(
          [TableName |-> "items", VectorSize |-> 3, SchemaName |-> s,
           ContentColumnName |-> "", EmbeddingColumn |-> "",
           MetadataJsonColumn |-> ""]).opts : s \in {"", "app"} }

NoUserResult ==
    [user |-> "", usingIAMAuth |-> FALSE, err |-> Nil, retrieverCalls |-> 0]

UserIdle ==
    /\ config = [user |-> "", password |-> "", iamAccountEmail |-> "",
                 emailRetreiver |-> [email |-> "", err |-> Nil]]
    /\ guPc = "ready"
    /\ guOut = NoUserResult

InitUser ==
    /\ config \in Configs
    /\ guPc = "ready"
    /\ guOut = NoUserResult
    /\ OptIdle
    /\ EngIdle

\* user, usingIAMAuth, err := getUser(context.Background(), tc.engineConfig)
GetUserCall ==
    /\ guPc = "ready"
    /\ guOut' = GetUser(config)
    /\ guPc' = "done"
    /\ UNCHANGED config
    /\ UNCHANGED <<optVars, engVars>>

NextUser == GetUserCall

SpecUser == InitUser /\ [][NextUser]_vars

-----------------------------------------------------------------------------
\* Specifications.

InitOpts ==
    /\ UserIdle
    /\ EngIdle
    /\ optsIn \in RawOptions
    /\ argsIn \in InitArgs
    /\ optsPc = "start"
    /\ optsOut = [opts |-> ZeroOptions, err |-> Nil]
    /\ runOut = NoRun

NextOpts ==
    \/ NewVectorstoreTableOptionsCall /\ UNCHANGED <<userVars, engVars>>
    \/ InitWithConstructedOptions /\ UNCHANGED <<userVars, engVars>>
    \/ InitWithLiteralOptions /\ UNCHANGED <<userVars, engVars>>

SpecOpts == InitOpts /\ [][NextOpts]_vars

Init == UserIdle /\ OptIdle /\ EngIdle

Next ==
    \/ \E optsErr \in ApplyErrors, cfg \in Configs, connPool \in BOOLEAN,
          outcome \in PoolOutcomes :
          NewPostgresEngine(optsErr, cfg, connPool, outcome)
              /\ UNCHANGED <<userVars, optVars>>
    \/ Close /\ UNCHANGED <<userVars, optVars>>
    \/ \E vsTableOpts \in EngineOptions, overwriteExisting \in BOOLEAN,
          faults \in Faults :
          InitVectorstoreTable(vsTableOpts, <<>>,
              [Name |-> "", DataType |-> "", Nullable |-> FALSE],
              overwriteExisting, TRUE, faults)
              /\ UNCHANGED <<userVars, optVars>>
    \/ \E tableName \in DbTables, schemaName \in DbSchemas, fault \in BOOLEAN :
          InitChatHistoryTable(tableName, schemaName, fault)
              /\ UNCHANGED <<userVars, optVars>>
    \/ \E key \in TableKeys : InsertRow(key) /\ UNCHANGED <<userVars, optVars>>

Spec == Init /\ [][Next]_vars

-----------------------------------------------------------------------------
\* C1: with username and password both non-empty, getUser returns
\* (username, usingIAM = false, no error) and does not call the retriever,
\* whatever the identity-email and the retriever are.
C1_BothCredentials ==
    (guPc = "done" /\ config.user # "" /\ config.password # "")
        => /\ guOut.user = config.user
           /\ guOut.usingIAMAuth = FALSE
           /\ guOut.err = Nil
           /\ guOut.retrieverCalls = 0

C1_Witness ==
    /\ guPc = "done"
    /\ config.user # "" /\ config.password # ""
    /\ config.iamAccountEmail # ""
    /\ config.emailRetreiver.err # Nil
    /\ guOut.user = config.user

\* C2: when username and password are not both non-empty and the
\* identity-email is non-empty, getUser returns (identity-email,
\* usingIAM = true, no error) without calling the retriever; a lone username
\* or a lone password does not change that.
C2_IdentityEmail ==
    (/\ guPc = "done"
     /\ ~(config.user # "" /\ config.password # "")
     /\ config.iamAccountEmail # "")
        => /\ guOut.user = config.iamAccountEmail
           /\ guOut.usingIAMAuth = TRUE
           /\ guOut.err = Nil
           /\ guOut.retrieverCalls = 0

C2_Witness ==
    /\ guPc = "done"
    /\ config.user # "" /\ config.password = ""
    /\ config.iamAccountEmail # ""
    /\ guOut.user = config.iamAccountEmail
    /\ guOut.usingIAMAuth

\* C3: with username, password and identity-email all empty, getUser calls
\* the retriever exactly once; success with email e gives (e, true, nil);
\* failure with cause c gives ("", false, "unable to retrieve service account
\* email: " followed by c).
C3_Retrieval ==
    (/\ guPc = "done"
     /\ config.user = "" /\ config.password = ""
     /\ config.iamAccountEmail = "")
        => /\ guOut.retrieverCalls = 1
           /\ config.emailRetreiver.err = Nil
                => /\ guOut.user = config.emailRetreiver.email
                   /\ guOut.usingIAMAuth = TRUE
                   /\ guOut.err = Nil
           /\ config.emailRetreiver.err # Nil
                => /\ guOut.err =
                        "unable to retrieve service account email: "
                            \o config.emailRetreiver.err
                   /\ guOut.user = ""
                   /\ guOut.usingIAMAuth = FALSE

C3_Witness ==
    /\ guPc = "done"
    /\ config.user = "" /\ config.password = ""
    /\ config.iamAccountEmail = ""
    /\ config.emailRetreiver.err = "missing or invalid credentials"
    /\ guOut.err =
         "unable to retrieve service account email: missing or invalid credentials"
    /\ guOut.retrieverCalls = 1

\* C4: with exactly one of username / password non-empty and an empty
\* identity-email, getUser fails with "unable to retrieve a valid username",
\* returns ("", false) and never calls the retriever.
C4_PartialCredentials ==
    (/\ guPc = "done"
     /\ (config.user # "") # (config.password # "")
     /\ config.iamAccountEmail = "")
        => /\ guOut.err = "unable to retrieve a valid username"
           /\ guOut.user = ""
           /\ guOut.usingIAMAuth = FALSE
           /\ guOut.retrieverCalls = 0

C4_Witness ==
    /\ guPc = "done"
    /\ config.user = "" /\ config.password # ""
    /\ config.iamAccountEmail = ""
    /\ config.emailRetreiver.err = Nil
    /\ config.emailRetreiver.email # ""
    /\ guOut.err = "unable to retrieve a valid username"

-----------------------------------------------------------------------------
\* C5: over any sequence of Close calls on an engine that holds a pool, the
\* pool is released exactly once: the first Close releases it and a later
\* Close releases nothing further.
C5_ReleasedOnce ==
    (engine = "ptr" /\ Pool = "pool")
        => /\ closeCalls = 0 => (releases = 0 /\ ~poolClosed)
           /\ closeCalls > 0 => (releases = 1 /\ poolClosed)

C5_Witness ==
    /\ engine = "ptr" /\ Pool = "pool"
    /\ closeCalls >= 2
    /\ releases = 1

\* C6: Close never faults, whatever NewPostgresEngine returned (on success,
\* on identity-resolution failure, on pool-creation failure) and however
\* often Close was called before.
IdentityErrors ==
    { "error assigning user. Err: " \o GetUser(cfg).err :
          cfg \in {c \in Configs : GetUser(c).err # Nil} }

PoolErrors ==
    { CreatePool(cfg, FALSE, outcome).err :
          cfg \in Configs, outcome \in PoolOutcomes \ {"ok"} }

C6_CloseNeverFaults ==
    newErr \in ({Nil} \cup IdentityErrors \cup PoolErrors)
        => panicked # "Close"

\* C7: once Close has been called, no later InitVectorstoreTable or
\* InitChatHistoryTable call executes a statement on the released pool: the
\* statements it hands to the pool are rejected and the database is as it was.
C7_NoUseAfterRelease ==
    last.afterClose
        => /\ \A i \in 1..Len(last.log) : ~last.log[i].ran
           /\ last.postTables = last.preTables
           /\ last.err # Nil

C7_Witness ==
    /\ last.op = "InitChatHistoryTable"
    /\ last.afterClose
    /\ last.err = "failed to execute query: closed pool"
    /\ ~last.preTables[<<last.schema, last.table>>].exists

LastKey == <<last.schema, last.table>>

LastCause == last.log[Len(last.log)].err

\* The DROP is the second statement and is issued only when overwrite is
\* requested; the CREATE TABLE is the last statement.
DropBeforeCreate ==
    \A i \in 1..Len(last.log) :
        /\ last.log[i].stmt.verb = "DROP TABLE IF EXISTS"
              => (last.overwrite /\ i = 2)
        /\ last.log[i].stmt.verb = "CREATE TABLE"
              => i = (IF last.overwrite THEN 3 ELSE 2)

\* C8 as stated: on an existing target table, overwrite=false fails with a
\* "failed to create table" error and leaves the table and its rows in
\* place; overwrite=true with no statement failing succeeds and leaves the
\* table existing with no rows; the drop precedes the create and is issued
\* only on overwrite.
C8_Original ==
    (last.op = "InitVectorstoreTable" /\ last.preTables[LastKey].exists)
        => /\ ~last.overwrite
                => /\ last.err = "failed to create table: " \o LastCause
                   /\ last.postTables[LastKey] = last.preTables[LastKey]
           /\ (last.overwrite /\ last.err = Nil)
                => last.postTables[LastKey] = EmptyTable
           /\ DropBeforeCreate

\* C8 (amended): on an existing target table, overwrite=false fails and
\* leaves the table and its rows in place, and the error is "failed to
\* create table" whenever the extension statement succeeded; overwrite=true
\* with no statement failing succeeds and leaves the table existing with no
\* rows; the drop precedes the create and is issued only on overwrite.
C8_ExistingTable ==
    (last.op = "InitVectorstoreTable" /\ last.preTables[LastKey].exists)
        => /\ ~last.overwrite
                => /\ last.err # Nil
                   /\ last.postTables[LastKey] = last.preTables[LastKey]
                   /\ last.log[1].err = Nil
                        => last.err = "failed to create table: " \o LastCause
           /\ (last.overwrite /\ last.err = Nil)
                => last.postTables[LastKey] = EmptyTable
           /\ DropBeforeCreate

C8_Witness ==
    /\ last.op = "InitVectorstoreTable"
    /\ last.preTables[LastKey].exists
    /\ last.preTables[LastKey].rows > 0
    /\ ~last.overwrite
    /\ last.err = "failed to create table: relation already exists"
    /\ last.postTables[LastKey].rows > 0

\* The failing statement is the last one issued and no statement is issued
\* twice.
FailedStatementIsLast ==
    /\ Len(last.log) > 0
    /\ LastCause # Nil
    /\ \A i \in 1..(Len(last.log) - 1) : last.log[i].err = Nil
    /\ \A i, j \in 1..Len(last.log) :
          i # j => last.log[i].stmt # last.log[j].stmt

\* The call did not create the table.
NotCreatedByCall ==
    /\ \A i \in 1..Len(last.log) :
          last.log[i].stmt.verb = "CREATE TABLE" => last.log[i].err # Nil
    /\ last.postTables[LastKey].exists
          => last.postTables[LastKey] = last.preTables[LastKey]

\* C9 as stated: when InitVectorstoreTable returns an error, the failing
\* statement was the last one issued, the call has not created the table,
\* and nothing but the enabled extension persists of the call.
C9_Original ==
    (last.op = "InitVectorstoreTable" /\ last.err # Nil)
        => /\ FailedStatementIsLast
           /\ NotCreatedByCall
           /\ last.postTables = last.preTables

\* C9 (amended): when InitVectorstoreTable returns an error, the failing
\* statement was the last one issued, the call has not created the table,
\* and what may persist of the call is the enabled extension and, when
\* overwrite was requested and the drop succeeded, the removal of the table
\* that existed before (with its rows).
C9_NoPartialSuccess ==
    (last.op = "InitVectorstoreTable" /\ last.err # Nil)
        => /\ FailedStatementIsLast
           /\ NotCreatedByCall
           /\ \A k \in TableKeys \ {LastKey} :
                 last.postTables[k] = last.preTables[k]
           /\ last.postTables[LastKey] # last.preTables[LastKey]
                 => /\ last.overwrite
                    /\ Len(last.log) = 3
                    /\ last.log[2].stmt.verb = "DROP TABLE IF EXISTS"
                    /\ last.log[2].err = Nil
                    /\ last.postTables[LastKey] = AbsentTable

C9_Witness ==
    /\ last.op = "InitVectorstoreTable"
    /\ last.err = "failed to create table: context canceled"
    /\ last.overwrite
    /\ last.preTables[LastKey].rows > 0
    /\ last.postTables[LastKey] = AbsentTable
    /\ extension

-----------------------------------------------------------------------------
\* The constructor's result carries the defaults: each empty field replaced,
\* each non-empty field kept.
OptionsDefaulted ==
    /\ optsOut.opts.TableName = optsIn.TableName
    /\ optsOut.opts.VectorSize = optsIn.VectorSize
    /\ optsOut.opts.SchemaName =
          (IF optsIn.SchemaName = "" THEN "public" ELSE optsIn.SchemaName)
    /\ optsOut.opts.ContentColumnName =
          (IF optsIn.ContentColumnName = "" THEN "content"
           ELSE optsIn.ContentColumnName)
    /\ optsOut.opts.EmbeddingColumn =
          (IF optsIn.EmbeddingColumn = "" THEN "embedding"
           ELSE optsIn.EmbeddingColumn)
    /\ optsOut.opts.MetadataJsonColumn =
          (IF optsIn.MetadataJsonColumn = "" THEN "langchain_metadata"
           ELSE optsIn.MetadataJsonColumn)

\* The CREATE TABLE statement carries the id column with its defaults.
IdColumnDefaulted ==
    \A i \in 1..Len(runOut.log) :
        runOut.log[i].stmt.verb = "CREATE TABLE"
            => /\ runOut.log[i].stmt.columns[1].name =
                     (IF argsIn.idColumn.Name = "" THEN "langchain_id"
                      ELSE argsIn.idColumn.Name)
               /\ runOut.log[i].stmt.columns[1].type =
                     (IF argsIn.idColumn.DataType = "" THEN "UUID"
                      ELSE argsIn.idColumn.DataType)

\* No statement issued carries an empty schema name, id column name or type,
\* content, embedding or metadata-json column name.
NoEmptyIdentifier ==
    \A i \in 1..Len(runOut.log) :
        LET stmt == runOut.log[i].stmt IN
        /\ stmt.verb # "CREATE EXTENSION IF NOT EXISTS vector"
              => stmt.schema # ""
        /\ stmt.verb = "CREATE TABLE"
              => /\ stmt.columns[1].name # ""
                 /\ stmt.columns[1].type # ""
                 /\ stmt.columns[2].name # ""
                 /\ stmt.columns[3].name # ""
                 /\ argsIn.storeMetadata
                       => stmt.columns[Len(stmt.columns)].name # ""

\* C10 as stated: for every table specification the defaults are
\* substituted, so no statement issued by vector-table provisioning carries
\* an empty identifier for these fields.
C10_Original ==
    /\ (optsPc \in {"made", "built"} /\ optsOut.err = Nil) => OptionsDefaulted
    /\ optsPc \in {"built", "builtLiteral"}
          => (IdColumnDefaulted /\ NoEmptyIdentifier)

\* C10 (amended): for every table specification NewVectorstoreTableOptions
\* accepts, the defaults are substituted field by field and non-empty values
\* kept; InitVectorstoreTable substitutes the id column's defaults for any
\* options; and no statement issued for options the constructor returned
\* carries an empty identifier for these fields.
C10_Defaults ==
    /\ (optsPc \in {"made", "built"} /\ optsOut.err = Nil) => OptionsDefaulted
    /\ optsPc \in {"built", "builtLiteral"} => IdColumnDefaulted
    /\ optsPc = "built" => NoEmptyIdentifier

C10_Witness ==
    /\ optsPc = "built"
    /\ optsIn.SchemaName = "" /\ optsIn.ContentColumnName = ""
    /\ optsIn.EmbeddingColumn # "" /\ optsIn.MetadataJsonColumn = ""
    /\ argsIn.idColumn.Name = "" /\ argsIn.idColumn.DataType # ""
    /\ argsIn.storeMetadata
    /\ Len(runOut.log) = 3
    /\ runOut.log[3].stmt.schema = "public"
    /\ runOut.log[3].stmt.columns[1].name = "langchain_id"

-----------------------------------------------------------------------------
\* C11: a table specification is accepted only if its table name is
\* non-empty and its vector dimensionality is greater than 0:
\* NewVectorstoreTableOptions returns an error for an empty table name and
\* for every dimensionality that is not > 0, and a rejected specification
\* has no statement executed on the pool.
C11_AcceptedOnlyIfValid ==
    /\ optsPc \in {"made", "built"}
          => (optsOut.err = Nil
                <=> (optsIn.TableName # "" /\ optsIn.VectorSize > 0))
    /\ (optsPc = "made" /\ optsOut.err # Nil) => runOut.log = <<>>
    /\ optsPc = "built" => optsIn.VectorSize > 0

-----------------------------------------------------------------------------
\* C12: a resolved identity is never partially populated: when getUser
\* returns without error the username is non-empty and comes from exactly
\* one of the three paths (the configured username with usingIAM = false,
\* the configured or the retrieved identity-email with usingIAM = true);
\* when it returns an error the username is empty and usingIAM is false.
\* This is to hold for every retriever, one that succeeds with an empty
\* email included.
C12_NeverPartiallyPopulated ==
    guPc = "done"
        => /\ guOut.err = Nil
                => /\ guOut.user # ""
                   /\ \/ /\ ~guOut.usingIAMAuth
                         /\ guOut.user = config.user
                         /\ guOut.retrieverCalls = 0
                      \/ /\ guOut.usingIAMAuth
                         /\ guOut.user = config.iamAccountEmail
                         /\ guOut.retrieverCalls = 0
                      \/ /\ guOut.usingIAMAuth
                         /\ config.iamAccountEmail = ""
                         /\ guOut.user = config.emailRetreiver.email
                         /\ guOut.retrieverCalls = 1
           /\ guOut.err # Nil
                => (guOut.user = "" /\ ~guOut.usingIAMAuth)

====
